---------------------------- MODULE Spec2Model ----------------------------
(* The jsonTestCases pipeline stage (InjectJsonSerializationTests) of the   *)
(* azure-service-operator code generator, as a state machine: one action    *)
(* per step of the stage function, the visitor and the test-case            *)
(* constructors as operators.                                               *)
EXTENDS Integers, Sequences, FiniteSets, TLC

(* ------------------------------ bounds --------------------------------- *)

\* Number of declarations in the input Type Graph.
MaxDecls == 2

\* Number of times the stage is run on the same input Type Graph.
MaxRuns == 2

Names == 1..MaxDecls

\* The declaration after n, cyclically: the target of a cross reference.
NextName(n) == (n % MaxDecls) + 1

\* A name no declaration of the graph has: the target of a dangling reference.
Undeclared == MaxDecls + 1

(* ------------------------- astmodel type variants ---------------------- *)

Prim == [kind |-> "Primitive"]

EnumT == [kind |-> "Enum"]

Ref(n) == [kind |-> "Reference", name |-> n]

Object(props) == [kind |-> "Object", props |-> props, tests |-> {}]

Resource(spec, status) ==
    [kind |-> "Resource", spec |-> spec, status |-> status, tests |-> {}]

Wrap(k, t) == [kind |-> k, elem |-> t]

WrapKinds == {"Optional", "Flagged", "Array", "Map"}

TypeDefinition(n, t) == [name |-> n, type |-> t]

\* The types a declaration named n may have in an input graph: every
\* variant, self references, references round the cycle of declarations,
\* Objects nested in Objects, Resources and in each wrapping variant.
TypeChoices(n) ==
    { Prim, EnumT, Ref(NextName(n)),
      Object(<<Ref(n), Ref(NextName(n))>>),
      Object(<<Wrap("Array", Object(<<Prim>>))>>),
      Resource(Ref(NextName(n)), Object(<<Prim>>)),
      Wrap("Optional", Object(<<Ref(n)>>)),
      Wrap("Flagged", Ref(n)),
      Wrap("Array", Resource(Ref(n), Prim)),
      Wrap("Map", Wrap("Flagged", Object(<<Prim>>))),
      Wrap("Map", EnumT),
      Wrap("Optional", Ref(Undeclared)) }

\* Every input Type Graph: a mapping keyed by each declaration's own name.
InputGraphs ==
    { g \in [Names -> UNION { {TypeDefinition(n, t) : t \in TypeChoices(n)} : n \in Names }] :
        \A n \in Names : g[n].name = n }

(* ------------------------------- state --------------------------------- *)

VARIABLES
    heap,      \* the astmodel.Types maps allocated so far, by address
    types,     \* address of the input graph, the stage function's argument
    given,     \* the input graph as it was when the stage was first called
    failing,   \* declarations whose traversal the visitor reports failed
    ctxDone,   \* whether the context passed to the stage has been cancelled
    pc,        \* position in the stage function
    todo,      \* declarations the range loop has not yet reached
    calls,     \* number of AddTestTo calls per declaration in this run
    result,    \* address of the map built by this run
    errs,      \* the errors collected by this run, in order
    ret,       \* what the stage function returned
    run,       \* which run of the stage this is
    first      \* what the first run returned, graph by value

\* The Pipeline that orders and runs a set of Stages.
VARIABLES
    registered,  \* the Stages given to the Pipeline, in registration order
    ppc,         \* position of the Pipeline: construction, execution, report
    order,       \* the execution order construction computed
    position,    \* how many Stages of the order have been dealt with
    graph,       \* the evolving Type Graph: the Stages that rewrote it, in order
    executed,    \* the Stages that ran: name, input graph, outcome
    skipped,     \* the Stages reported as skipped
    report       \* what the Pipeline returned

\* The go-vcr request matcher installed by createRecorder.
VARIABLES
    request,      \* the *http.Request the matcher is given
    interaction,  \* the recorded cassette.Request it is compared with
    mpc,          \* position of the matcher
    matched       \* what the matcher returned

\* createEnvtestContext, the test around it and the manager goroutine.
VARIABLES
    tpc,          \* position of the test goroutine
    cleanups,     \* the functions given to T.Cleanup, in registration order
    environment,  \* the envtest environment: down, up or stopped
    stopManager,  \* whether the stopManager channel is closed
    mgr,          \* the goroutine that runs mgr.Start
    listening,    \* whether the webhook server accepts connections
    connected,    \* whether a dial of waitForWebhooks has succeeded
    dials,        \* the dials waitForWebhooks has made, counted up to MaxDials
    requeueDelay  \* the RequeueDelay option given to the controllers

stageVars == <<heap, types, given, failing, ctxDone, pc, todo, calls, result, errs, ret, run, first>>

pipeVars == <<registered, ppc, order, position, graph, executed, skipped, report>>

matchVars == <<request, interaction, mpc, matched>>

envVars == <<tpc, cleanups, environment, stopManager, mgr, listening, connected, dials, requeueDelay>>

vars == <<stageVars, pipeVars, matchVars, envVars>>

\* No Stage function is running.
StageIdle ==
    /\ heap = <<>>
    /\ types = 0
    /\ given = <<>>
    /\ failing = {}
    /\ ctxDone = FALSE
    /\ pc = "idle"
    /\ todo = {}
    /\ calls = <<>>
    /\ result = 0
    /\ errs = <<>>
    /\ ret = [graph |-> 0, err |-> <<>>]
    /\ run = 0
    /\ first = [graph |-> 0, err |-> <<>>]

\* No Pipeline has been constructed.
PipelineIdle ==
    /\ registered = <<>>
    /\ ppc = "idle"
    /\ order = <<>>
    /\ position = 0
    /\ graph = <<>>
    /\ executed = <<>>
    /\ skipped = {}
    /\ report = [kind |-> "none"]

\* No request is being matched.
MatcherIdle ==
    /\ request = [kind |-> "none"]
    /\ interaction = [kind |-> "none"]
    /\ mpc = "idle"
    /\ matched = FALSE

\* No envtest context is being created.
EnvtestIdle ==
    /\ tpc = "idle"
    /\ cleanups = <<>>
    /\ environment = "down"
    /\ stopManager = "open"
    /\ mgr = "none"
    /\ listening = FALSE
    /\ connected = FALSE
    /\ dials = 0
    /\ requeueDelay = "0"

Nil == 0

NoErr == [id |-> Nil, cause |-> "none"]

NoReturn == [graph |-> Nil, err |-> <<>>]

(* ----------------------- testcases and astmodel ------------------------ *)

\* testcases.NewJSONSerializationTestCase: the test case is named after the
\* declaration whose type it exercises.
NewJSONSerializationTestCase(name, subject) ==
    [testName |-> name, about |-> "JSONSerialization"]

\* ObjectType.WithTestCase / ResourceType.WithTestCase: a copy carrying it.
WithTestCase(t, testcase) == [t EXCEPT !.tests = @ \cup {testcase}]

(* ------------------ objectSerializationTestCaseFactory ----------------- *)

\* A handler that builds the test case and returns the resource it was given.
injectTestCaseIntoResourceDropped(resource, ctx) ==
    [type |-> resource, err |-> NoErr]

injectTestCaseIntoResource(resource, ctx) ==
    [type |-> WithTestCase(resource, NewJSONSerializationTestCase(ctx, resource)),
     err |-> NoErr]

\* A handler that resolves the Object's Reference properties against the
\* input graph before attaching the test case.
injectTestCaseIntoObjectInlining(objectType, ctx) ==
    LET inlined == [i \in DOMAIN objectType.props |->
                      IF /\ objectType.props[i].kind = "Reference"
                         /\ objectType.props[i].name \in DOMAIN heap[types]
                      THEN heap[types][objectType.props[i].name].type
                      ELSE objectType.props[i]]
    IN  [type |-> [objectType EXCEPT
                     !.props = inlined,
                     !.tests = @ \cup {[testName |-> ctx, about |-> "JSONSerialization"]}],
         err |-> NoErr]

injectTestCaseIntoObject(objectType, ctx) ==
    [type |-> WithTestCase(objectType, NewJSONSerializationTestCase(ctx, objectType)),
     err |-> NoErr]

\* A factory that registers the Resource handler only.
FactoryWithoutObjectHandler ==
    [VisitResourceType |-> "injectTestCaseIntoResource"]

\* The handlers the factory gives the TypeVisitorBuilder; every other
\* variant keeps the visitor's default.
makeObjectSerializationTestCaseFactory ==
    [VisitResourceType |-> "injectTestCaseIntoResource",
     VisitObjectType |-> "injectTestCaseIntoObject"]

(* --------------------------- TypeVisitor ------------------------------- *)

RECURSIVE Visit(_, _, _)
\* TypeVisitor.Visit: a supplied handler replaces the default; the default
\* rebuilds a wrapping variant round its visited child and returns a leaf
\* (Primitive, Enum, Reference) unchanged. An error aborts the traversal.
Visit(visitor, t, ctx) ==
    CASE t.kind = "Resource" /\ "VisitResourceType" \in DOMAIN visitor ->
            injectTestCaseIntoResource(t, ctx)
      [] t.kind = "Object" /\ "VisitObjectType" \in DOMAIN visitor ->
            injectTestCaseIntoObject(t, ctx)
      [] t.kind = "Resource" ->
            LET s == Visit(visitor, t.spec, ctx)
                u == Visit(visitor, t.status, ctx)
            IN  IF s.err # NoErr THEN s
                ELSE IF u.err # NoErr THEN u
                ELSE [type |-> [t EXCEPT !.spec = s.type, !.status = u.type], err |-> NoErr]
      [] t.kind = "Object" ->
            LET vs == [i \in DOMAIN t.props |-> Visit(visitor, t.props[i], ctx)]
                bad == {i \in DOMAIN vs : vs[i].err # NoErr}
            IN  IF bad # {} THEN vs[CHOOSE i \in bad : \A j \in bad : i <= j]
                ELSE [type |-> [t EXCEPT !.props = [i \in DOMAIN vs |-> vs[i].type]],
                      err |-> NoErr]
      [] t.kind \in WrapKinds ->
            LET e == Visit(visitor, t.elem, ctx)
            IN  IF e.err # NoErr THEN e
                ELSE [type |-> [t EXCEPT !.elem = e.type], err |-> NoErr]
      [] OTHER -> [type |-> t, err |-> NoErr]

\* TypeVisitor.VisitDefinition: the declaration with its type visited, under
\* the same name; a failure is reported against the declaration's name.
VisitDefinition(visitor, def, ctx) ==
    LET v == Visit(visitor, def.type, ctx)
    IN  IF def.name \in failing
        THEN [def |-> TypeDefinition(Nil, Prim),
              err |-> [id |-> def.name, cause |-> "visit of type failed"]]
        ELSE IF v.err # NoErr
        THEN [def |-> TypeDefinition(Nil, Prim),
              err |-> [id |-> def.name, cause |-> v.err.cause]]
        ELSE [def |-> TypeDefinition(def.name, v.type), err |-> NoErr]

AddTestTo(def) ==
    VisitDefinition(makeObjectSerializationTestCaseFactory, def, def.name)

(* ------------------------------ kerrors -------------------------------- *)

\* kerrors.NewAggregate: the non-nil errors of the list, in the list's order.
NewAggregate(errlist) == SelectSeq(errlist, LAMBDA e : e # NoErr)

(* ------------------- InjectJsonSerializationTests ---------------------- *)

Init ==
    /\ given \in InputGraphs
    /\ heap = (1 :> given)
    /\ types = 1
    /\ failing \in SUBSET Names
    /\ ctxDone = FALSE
    /\ pc = "start"
    /\ todo = {}
    /\ calls = [n \in Names |-> 0]
    /\ result = Nil
    /\ errs = <<>>
    /\ ret = NoReturn
    /\ run = 1
    /\ first = NoReturn
    /\ PipelineIdle
    /\ MatcherIdle
    /\ EnvtestIdle

\* A result that is the input map itself.
MakeTypesAliasInput(h, input) == input

\* result := make(astmodel.Types): a new, empty map at a fresh address.
MakeTypes(h, input) == Cardinality(DOMAIN h) + 1

\* The stage function is entered: the factory, the result map, no errors.
Enter ==
    /\ pc = "start"
    /\ LET r == MakeTypes(heap, types)
       IN  /\ result' = r
           /\ heap' = IF r \in DOMAIN heap THEN heap ELSE heap @@ (r :> <<>>)
    /\ errs' = <<>>
    /\ todo' = DOMAIN heap[types]
    /\ calls' = [n \in Names |-> 0]
    /\ pc' = "loop"
    /\ UNCHANGED <<types, given, failing, ctxDone, ret, run, first>>
    /\ UNCHANGED <<pipeVars, matchVars, envVars>>

\* A loop that stops at the first declaration that fails.
RangeRestFailFast(remaining, d, failed) == IF failed THEN {} ELSE remaining \ {d}

\* The declarations the range loop still has to reach after this one.
RangeRest(remaining, d, failed) == remaining \ {d}

\* An append that keeps the cause and drops what wraps it.
CollectErrorCauseOnly(list, err) == Append(list, [id |-> Nil, cause |-> err.cause])

\* errs = append(errs, err)
CollectError(list, err) == Append(list, err)

\* A store that keeps only the declarations the visit changed.
StoreUpdatedIfChanged(m, updated) ==
    IF updated = heap[types][updated.name] THEN m
    ELSE [k \in DOMAIN m \cup {updated.name} |-> IF k = updated.name THEN updated ELSE m[k]]

\* result[updated.Name()] = updated
StoreUpdated(m, updated) ==
    [k \in DOMAIN m \cup {updated.name} |-> IF k = updated.name THEN updated ELSE m[k]]

\* One iteration of `for _, d := range types`, in the map's arbitrary order.
Iterate(d) ==
    /\ pc = "loop"
    /\ d \in todo
    /\ LET a == AddTestTo(heap[types][d])
       IN  /\ errs' = IF a.err # NoErr THEN CollectError(errs, a.err) ELSE errs
           /\ heap' = IF a.err # NoErr THEN heap
                      ELSE [heap EXCEPT ![result] = StoreUpdated(@, a.def)]
           /\ todo' = RangeRest(todo, d, a.err # NoErr)
    /\ calls' = [calls EXCEPT ![d] = @ + 1]
    /\ UNCHANGED <<types, given, failing, ctxDone, pc, result, ret, run, first>>
    /\ UNCHANGED <<pipeVars, matchVars, envVars>>

\* A return that hands out the partial graph beside the error.
StageReturnPartial(list, res) ==
    IF Len(list) > 0 THEN [graph |-> res, err |-> NewAggregate(list)]
    ELSE [graph |-> res, err |-> <<>>]

\* if len(errs) > 0 { return nil, kerrors.NewAggregate(errs) }; return result, nil
StageReturn(list, res) ==
    IF Len(list) > 0 THEN [graph |-> Nil, err |-> NewAggregate(list)]
    ELSE [graph |-> res, err |-> <<>>]

Return ==
    /\ pc = "loop"
    /\ todo = {}
    /\ ret' = StageReturn(errs, result)
    /\ pc' = "done"
    /\ UNCHANGED <<heap, types, given, failing, ctxDone, todo, calls, result, errs, run, first>>
    /\ UNCHANGED <<pipeVars, matchVars, envVars>>

\* The caller cancels the context while the stage function is running.
Cancel ==
    /\ pc = "loop"
    /\ ~ctxDone
    /\ ctxDone' = TRUE
    /\ UNCHANGED <<heap, types, given, failing, pc, todo, calls, result, errs, ret, run, first>>
    /\ UNCHANGED <<pipeVars, matchVars, envVars>>

\* What a caller can observe of a return: the graph by value, and the error.
Observed(r) == [graph |-> IF r.graph = Nil THEN Nil ELSE heap[r.graph], err |-> r.err]

\* The stage is run again on the same input graph, with a fresh context.
RunAgain ==
    /\ pc = "done"
    /\ run < MaxRuns
    /\ first' = IF run = 1 THEN Observed(ret) ELSE first
    /\ run' = run + 1
    /\ ctxDone' = FALSE
    /\ ret' = NoReturn
    /\ pc' = "start"
    /\ UNCHANGED <<heap, types, given, failing, todo, calls, result, errs>>
    /\ UNCHANGED <<pipeVars, matchVars, envVars>>

\* The steps of one run of the stage function.
StageStep ==
    \/ Enter
    \/ \E d \in Names : Iterate(d)
    \/ Return

Next ==
    \/ StageStep
    \/ Cancel
    \/ RunAgain

Spec == Init /\ [][Next]_vars

\* One run of the stage function, which is sequential code that runs on
\* until it returns.
FairSpec == Init /\ [][StageStep]_vars /\ WF_vars(StageStep)

(* ------------------------------ claims --------------------------------- *)

Done == pc = "done"

\* The declarations of the input graph for which AddTestTo returns an error.
FailedDecls == {n \in DOMAIN heap[types] : AddTestTo(heap[types][n]).err # NoErr}

\* The declarations whose type is itself a Resource or an Object.
Eligible == {n \in DOMAIN given : given[n].type.kind \in {"Resource", "Object"}}

\* The test case the stage synthesizes for declaration n.
TestCaseOf(n) == [testName |-> n, about |-> "JSONSerialization"]

\* C1: fail-closed. When k >= 1 declarations fail, the stage returns no
\* graph and an aggregate error holding exactly k per-item errors, one for
\* each failed declaration.
C1_FailClosed ==
    (Done /\ FailedDecls # {}) =>
        /\ ret.graph = Nil
        /\ Len(ret.err) = Cardinality(FailedDecls)
        /\ \A n \in FailedDecls :
              Cardinality({i \in DOMAIN ret.err : ret.err[i].id = n}) = 1

\* A run in which one declaration failed and another succeeded has returned.
C1_Witness ==
    /\ Done
    /\ FailedDecls # {}
    /\ DOMAIN heap[result] # {}
    /\ ret.graph = Nil
    /\ Len(ret.err) = Cardinality(FailedDecls)

\* C2: never fail-fast. Each declaration is passed to AddTestTo exactly once
\* per run whatever failed before it, and nothing is returned before every
\* declaration has been attempted.
C2_NeverFailFast ==
    /\ pc = "loop" =>
          /\ \A n \in DOMAIN heap[types] : calls[n] = IF n \in todo THEN 0 ELSE 1
          /\ ret = NoReturn
    /\ Done => \A n \in DOMAIN heap[types] : calls[n] = 1

\* A run has returned in which a declaration was attempted after an earlier
\* one had failed, and failed too.
C2_Witness ==
    /\ Done
    /\ Len(errs) >= 2
    /\ \A n \in DOMAIN heap[types] : calls[n] = 1

\* C3: with no failure, each Resource and each Object declaration of the
\* input is in the returned graph under its own identifier, its content
\* unchanged but for one added test case named after that identifier.
C3_EligibleGetTestCase ==
    (Done /\ FailedDecls = {}) =>
        /\ ret.graph # Nil
        /\ \A n \in Eligible :
              /\ n \in DOMAIN heap[ret.graph]
              /\ heap[ret.graph][n].name = n
              /\ [heap[ret.graph][n].type EXCEPT !.tests = given[n].type.tests]
                    = given[n].type
              /\ heap[ret.graph][n].type.tests
                    = given[n].type.tests \cup {TestCaseOf(n)}

\* A run without failures has returned a graph with a Resource and an
\* Object declaration in it, each carrying its test case.
C3_Witness ==
    /\ Done
    /\ FailedDecls = {}
    /\ ret.graph # Nil
    /\ \E n, m \in Eligible :
          /\ given[n].type.kind = "Resource"
          /\ given[m].type.kind = "Object"
          /\ TestCaseOf(n) \in heap[ret.graph][n].type.tests
          /\ TestCaseOf(m) \in heap[ret.graph][m].type.tests

RECURSIVE Core(_)
\* The type inside the Optional, Flagged, Array and Map wrappers of t.
Core(t) == IF t.kind \in WrapKinds THEN Core(t.elem) ELSE t

RECURSIVE WrapperChain(_)
\* The wrapping variants of t, outermost first.
WrapperChain(t) ==
    IF t.kind \in WrapKinds THEN <<t.kind>> \o WrapperChain(t.elem) ELSE <<>>

C5_Determinism ==
    (Done /\ run > 1) => Observed(ret) = first

\* C6: cancellation. Once the context is cancelled while declarations
\* remain unprocessed, the stage processes none of them and its next step is
\* to report the cancellation, returning no graph.
C6_CancellationStops ==
    [][(pc = "loop" /\ ctxDone /\ todo # {}) =>
          (calls' = calls /\ pc' = "cancelled" /\ ret'.graph = Nil)]_vars

C8_InputNotMutated ==
    /\ heap[types] = given
    /\ pc \in {"loop", "done"} => result # types
    /\ ret.graph # Nil => ret.graph # types

\* A run has returned a graph that differs from the input, and the input is
\* what it was.
C8_Witness ==
    /\ Done
    /\ ret.graph # Nil
    /\ heap[ret.graph] # given
    /\ heap[types] = given

RECURSIVE RefsOf(_)
\* The identifiers referred to anywhere in type t.
RefsOf(t) ==
    CASE t.kind = "Reference" -> {t.name}
      [] t.kind \in WrapKinds -> RefsOf(t.elem)
      [] t.kind = "Object" -> UNION {RefsOf(t.props[i]) : i \in DOMAIN t.props}
      [] t.kind = "Resource" -> RefsOf(t.spec) \cup RefsOf(t.status)
      [] OTHER -> {}

\* Every Reference of graph g names a declaration of g.
Resolves(g) == \A n \in DOMAIN g : RefsOf(g[n].type) \subseteq DOMAIN g

\* C9: no dangling references. If every Reference of the input resolves in
\* the input, every Reference of a returned graph resolves in the returned
\* graph, which has the input's identifiers, each declaration under its
\* own name.
C9_NoDanglingReferences ==
    (Done /\ ret.graph # Nil /\ Resolves(given)) =>
        /\ DOMAIN heap[ret.graph] = DOMAIN given
        /\ \A k \in DOMAIN heap[ret.graph] : heap[ret.graph][k].name = k
        /\ Resolves(heap[ret.graph])

\* A run has returned a graph for an input whose references resolve, one of
\* them to a declaration the stage left as it was.
C9_Witness ==
    /\ Done
    /\ ret.graph # Nil
    /\ Resolves(given)
    /\ \E n, m \in DOMAIN given :
          /\ m \in RefsOf(heap[ret.graph][n].type)
          /\ n # m
          /\ heap[ret.graph][m] = given[m]

RECURSIVE ReachedFrom(_, _)
\* The declarations reached from the set S along at most k more References.
ReachedFrom(S, k) ==
    IF k = 0 THEN S
    ELSE ReachedFrom(
           S \cup UNION {RefsOf(given[n].type) \cap DOMAIN given : n \in S}, k - 1)

\* The declarations that declaration n refers to, directly or indirectly.
RefersTo(n) ==
    ReachedFrom(RefsOf(given[n].type) \cap DOMAIN given, Cardinality(DOMAIN given))

RECURSIVE StripTests(_)
\* Type t without the test cases attached to it.
StripTests(t) ==
    CASE t.kind \in WrapKinds -> [t EXCEPT !.elem = StripTests(t.elem)]
      [] t.kind = "Object" ->
            [t EXCEPT !.props = [i \in DOMAIN t.props |-> StripTests(t.props[i])],
                      !.tests = {}]
      [] t.kind = "Resource" ->
            [t EXCEPT !.spec = StripTests(t.spec), !.status = StripTests(t.status),
                      !.tests = {}]
      [] OTHER -> t

\* Each declaration on a cycle of References that AddTestTo has processed is
\* stored with the shape and the References of its input: no target inlined.
NoExpansion ==
    \A n \in DOMAIN given :
        (n \in RefersTo(n) /\ n \notin todo /\ calls[n] > 0 /\ n \notin FailedDecls) =>
            /\ n \in DOMAIN heap[result]
            /\ StripTests(heap[result][n].type) = StripTests(given[n].type)

\* C10: no-expansion law. For a declaration that refers to itself, directly
\* or through a cycle of References, AddTestTo returns a declaration whose
\* References are still References, and every run of the stage returns.
C10_NoExpansionTerminates == []NoExpansion /\ <>[]Done

\* A run has returned a graph holding a declaration that refers to itself
\* directly and, through another declaration, round a cycle.
C10_Witness ==
    /\ Done
    /\ ret.graph # Nil
    /\ \E n, m \in DOMAIN given :
          /\ n # m
          /\ n \in RefsOf(given[n].type)
          /\ m \in RefersTo(n)
          /\ n \in RefersTo(m)
          /\ RefsOf(heap[ret.graph][n].type) = RefsOf(given[n].type)

(* ------------------------------ Pipeline ------------------------------- *)

\* Number of Stages registered with the Pipeline.
MaxStages == 4

StageNames == 1..MaxStages

\* A dependency name that no registered Stage has.
MissingStage == MaxStages + 1

\* The Stage names next to n, cyclically.
StageAfter(n) == (n % MaxStages) + 1

StageBefore(n) == ((n + MaxStages - 2) % MaxStages) + 1

\* The dependencies the Stage registered at place i may declare: none, any
\* one name (its own and an unregistered one included), or both neighbours.
DepChoices(i) ==
    {{}} \cup {{d} : d \in StageNames \cup {MissingStage}}
         \cup {{StageBefore(i), StageAfter(i)}}

\* The names of the registered Stages: all different, or one Stage
\* registered under the name of the first.
NameChoices ==
    {[i \in StageNames |-> IF i = k THEN 1 ELSE i] : k \in StageNames}

Registrations ==
    {[i \in StageNames |-> [name |-> nm[i], deps |-> dp[i]]] :
        nm \in NameChoices,
        dp \in {f \in [StageNames -> UNION {DepChoices(i) : i \in StageNames}] :
                  \A i \in StageNames : f[i] \in DepChoices(i)}}

NamesOf(st, places) == {st[i].name : i \in places}

Range(seq) == {seq[i] : i \in DOMAIN seq}

\* A duplicate check that finds nothing.
NoDuplicateNames(st) == {}

\* The names registered more than once.
DuplicateNames(st) ==
    {st[i].name : i \in {i \in DOMAIN st : \E j \in DOMAIN st : j # i /\ st[j].name = st[i].name}}

\* The declared dependency names that no registered Stage has.
MissingDependencies(st) ==
    UNION {st[i].deps : i \in DOMAIN st} \ NamesOf(st, DOMAIN st)

\* Among the Stages that are ready, the one registered last.
LastRegistered(ready) == CHOOSE i \in ready : \A j \in ready : i >= j

\* Among the Stages that are ready, the one registered first.
FirstRegistered(ready) == CHOOSE i \in ready : \A j \in ready : i <= j

RECURSIVE Kahn(_, _, _)
\* Kahn's algorithm: place a Stage all of whose dependencies are placed,
\* until none is left or none is ready; what is left is the residual.
Kahn(st, placed, remaining) ==
    LET ready == {i \in remaining : st[i].deps \subseteq NamesOf(st, Range(placed))}
    IN  IF ready = {} THEN [order |-> placed, residual |-> remaining]
        ELSE LET i == FirstRegistered(ready)
             IN  Kahn(st, Append(placed, i), remaining \ {i})

\* Pipeline construction: the execution order, or the construction error.
NewPipeline(st) ==
    LET k == Kahn(st, <<>>, DOMAIN st)
    IN  IF DuplicateNames(st) # {}
        THEN [err |-> [kind |-> "duplicate-registration", names |-> DuplicateNames(st)],
              order |-> <<>>]
        ELSE IF MissingDependencies(st) # {}
        THEN [err |-> [kind |-> "missing-dependency", names |-> MissingDependencies(st)],
              order |-> <<>>]
        ELSE IF k.residual # {}
        THEN [err |-> [kind |-> "dependency-cycle", names |-> NamesOf(st, k.residual)],
              order |-> <<>>]
        ELSE [err |-> [kind |-> "none"], order |-> k.order]

PipelineInit ==
    /\ registered \in Registrations
    /\ ppc = "new"
    /\ order = <<>>
    /\ position = 0
    /\ graph = <<>>
    /\ executed = <<>>
    /\ skipped = {}
    /\ report = [kind |-> "none"]
    /\ StageIdle
    /\ MatcherIdle
    /\ EnvtestIdle

\* The Pipeline is constructed from the registered Stages.
Construct ==
    /\ ppc = "new"
    /\ LET p == NewPipeline(registered)
       IN  IF p.err.kind # "none"
           THEN /\ report' = p.err
                /\ ppc' = "rejected"
                /\ order' = order
           ELSE /\ order' = p.order
                /\ ppc' = "running"
                /\ report' = report
    /\ UNCHANGED <<registered, position, graph, executed, skipped>>
    /\ UNCHANGED <<stageVars, matchVars, envVars>>

\* The names of the Stages that ran and failed.
FailedStages == {executed[k].name : k \in {k \in DOMAIN executed : ~executed[k].ok}}

\* A check that looks at the failed dependencies only.
BlockedByFailedOnly(st, i, failedNames, skippedNames) ==
    st[i].deps \cap failedNames # {}

\* Whether the Stage at place i must not run: a dependency failed or was
\* itself skipped.
Blocked(st, i, failedNames, skippedNames) ==
    st[i].deps \cap (failedNames \cup skippedNames) # {}

\* The next Stage of the order runs on the evolving graph, and succeeds or fails.
Execute(ok) ==
    /\ ppc = "running"
    /\ position < Len(order)
    /\ LET i == order[position + 1]
       IN  /\ ~Blocked(registered, i, FailedStages, skipped)
           /\ LET out == IF ok THEN Append(graph, registered[i].name) ELSE graph
              IN  /\ executed' = Append(executed,
                                    [name |-> registered[i].name, input |-> graph,
                                     ok |-> ok, output |-> out])
                  /\ graph' = out
    /\ position' = position + 1
    /\ UNCHANGED <<registered, ppc, order, skipped, report>>
    /\ UNCHANGED <<stageVars, matchVars, envVars>>

\* The next Stage of the order is not run, and recorded as skipped.
Skip ==
    /\ ppc = "running"
    /\ position < Len(order)
    /\ LET i == order[position + 1]
       IN  /\ Blocked(registered, i, FailedStages, skipped)
           /\ skipped' = skipped \cup {registered[i].name}
    /\ position' = position + 1
    /\ UNCHANGED <<registered, ppc, order, graph, executed, report>>
    /\ UNCHANGED <<stageVars, matchVars, envVars>>

\* The graph of a report that returns no graph.
NoGraph == <<Nil>>

\* What the Pipeline returns after the walk: the final graph if every Stage
\* succeeded, else no graph and the failures and skipped Stages.
PipelineResult(g, failedNames, skippedNames) ==
    IF failedNames = {}
    THEN [kind |-> "graph", graph |-> g, errors |-> {}, skipped |-> skippedNames]
    ELSE [kind |-> "failed", graph |-> NoGraph,
          errors |-> {[stage |-> f] : f \in failedNames}, skipped |-> skippedNames]

Report ==
    /\ ppc = "running"
    /\ position = Len(order)
    /\ report' = PipelineResult(graph, FailedStages, skipped)
    /\ ppc' = "done"
    /\ UNCHANGED <<registered, order, position, graph, executed, skipped>>
    /\ UNCHANGED <<stageVars, matchVars, envVars>>

PipelineNext ==
    \/ Construct
    \/ \E ok \in BOOLEAN : Execute(ok)
    \/ Skip
    \/ Report

PipelineSpec == PipelineInit /\ [][PipelineNext]_vars

(* --------------------------- Pipeline claims --------------------------- *)

\* The names of the Stages placed before place k of the order.
PlacedBefore(k) == NamesOf(registered, {order[j] : j \in 1..(k - 1)})

\* The names of the Stages that ran.
ExecutedStages == {executed[k].name : k \in DOMAIN executed}

\* The graph the Stages that ran before the k-th one left behind.
GraphBefore(k) ==
    LET done == {j \in 1..(k - 1) : executed[j].ok}
    IN  IF done = {} THEN <<>>
        ELSE executed[CHOOSE j \in done : \A i \in done : i <= j].output

\* C11: topological-order law. The execution order holds every Stage once,
\* each after all the Stages it depends on, ties broken by registration
\* order; Stages are dealt with one at a time in that order, and each Stage
\* that runs takes as input the output of the last Stage that produced one.
C11_TopologicalOrder ==
    ppc \in {"running", "done"} =>
        /\ Range(order) = DOMAIN registered
        /\ Len(order) = Cardinality(DOMAIN registered)
        /\ \A k \in DOMAIN order : registered[order[k]].deps \subseteq PlacedBefore(k)
        /\ \A k, l \in DOMAIN order :
              (k < l /\ registered[order[l]].deps \subseteq PlacedBefore(k))
                  => order[k] < order[l]
        /\ ExecutedStages \cup skipped = PlacedBefore(position + 1)
        /\ Len(executed) + Cardinality(skipped) = position
        /\ \A a, b \in DOMAIN executed :
              a < b => \E k, l \in DOMAIN order :
                          /\ k < l
                          /\ registered[order[k]].name = executed[a].name
                          /\ registered[order[l]].name = executed[b].name
        /\ \A k \in DOMAIN executed :
              /\ executed[k].input = GraphBefore(k)
              /\ (k > 1 /\ executed[k - 1].ok) => executed[k].input = executed[k - 1].output
        /\ graph = GraphBefore(Len(executed) + 1)

\* Every Stage has run and succeeded, in an order that is not the
\* registration order and in which a tie was broken.
C11_Witness ==
    /\ ppc = "done"
    /\ Len(executed) = MaxStages
    /\ \A k \in DOMAIN executed : executed[k].ok
    /\ \E k \in DOMAIN order : order[k] # k
    /\ \E k, l \in DOMAIN order :
          /\ k < l
          /\ registered[order[l]].deps \subseteq PlacedBefore(k)
    /\ \E k \in DOMAIN order : Cardinality(registered[order[k]].deps) = 2

\* The dependency names declared under Stage name n.
DepsOfName(n) == UNION {registered[i].deps : i \in {i \in DOMAIN registered : registered[i].name = n}}

RECURSIVE DepsWithin(_, _)
\* The names reached from the set S along at most k more dependencies.
DepsWithin(S, k) ==
    IF k = 0 THEN S ELSE DepsWithin(S \cup UNION {DepsOfName(n) : n \in S}, k - 1)

\* Every name that Stage name n depends on, directly or transitively.
AllDepsOf(n) == DepsWithin(DepsOfName(n), Cardinality(DOMAIN registered))

\* C12: skip propagation. A Stage that has been dealt with ran if and only
\* if no Stage it transitively depends on failed, and then all of those ran
\* and succeeded; otherwise it is reported as skipped, not as failed. The
\* report holds exactly the errors of the Stages that ran and failed, and
\* a graph only if there is none.
C12_SkipPropagation ==
    ppc \in {"running", "done"} =>
        /\ \A n \in PlacedBefore(position + 1) :
              /\ n \in skipped <=> AllDepsOf(n) \cap FailedStages # {}
              /\ n \in ExecutedStages <=> AllDepsOf(n) \cap FailedStages = {}
              /\ n \in ExecutedStages =>
                    \A d \in AllDepsOf(n) :
                        \E k \in DOMAIN executed : executed[k].name = d /\ executed[k].ok
        /\ skipped \cap ExecutedStages = {}
        /\ ppc = "done" =>
              /\ report.kind = (IF FailedStages = {} THEN "graph" ELSE "failed")
              /\ report.errors = {[stage |-> f] : f \in FailedStages}
              /\ report.skipped = skipped
              /\ report.graph = (IF FailedStages = {} THEN graph ELSE NoGraph)

\* A Stage failed, a Stage that depends on it and a Stage that depends on
\* that one were skipped, a Stage independent of it ran after it, and the
\* report holds the one error and no graph.
C12_Witness ==
    /\ ppc = "done"
    /\ Cardinality(FailedStages) = 1
    /\ report.errors = {[stage |-> f] : f \in FailedStages}
    /\ report.graph = NoGraph
    /\ \E a, b \in skipped :
          /\ DepsOfName(a) \subseteq FailedStages
          /\ DepsOfName(b) = {a}
    /\ \E k \in DOMAIN executed :
          /\ executed[k].ok
          /\ k > 1
          /\ ~executed[k - 1].ok

\* The registered Stage names that lie on a cycle of dependencies.
OnCycle == {n \in NamesOf(registered, DOMAIN registered) : n \in AllDepsOf(n)}

\* Whether construction has to fail for the registered Stages.
IllFormed ==
    \/ \E i, j \in DOMAIN registered : i # j /\ registered[i].name = registered[j].name
    \/ \E i \in DOMAIN registered :
          ~(registered[i].deps \subseteq NamesOf(registered, DOMAIN registered))
    \/ OnCycle # {}

\* C13: construction fails, before any Stage runs and leaving nothing
\* behind, exactly when two Stages share a name, a dependency names no
\* registered Stage or the dependencies hold a cycle; a dependency-cycle
\* error names every Stage on a cycle.
C13_ConstructionRejects ==
    /\ ppc \in {"running", "done"} => ~IllFormed
    /\ ppc = "rejected" =>
          /\ IllFormed
          /\ order = <<>> /\ position = 0 /\ graph = <<>>
          /\ executed = <<>> /\ skipped = {}
          /\ report.kind \in {"duplicate-registration", "missing-dependency", "dependency-cycle"}
          /\ report.kind = "dependency-cycle" =>
                (OnCycle # {} /\ OnCycle \subseteq report.names)
          /\ ~ENABLED PipelineNext
    /\ ppc = "new" => executed = <<>>

\* Construction has failed on a cycle through two Stages, naming both and a
\* Stage that depends on them.
C13_Witness ==
    /\ ppc = "rejected"
    /\ report.kind = "dependency-cycle"
    /\ Cardinality(OnCycle) >= 2
    /\ OnCycle \subseteq report.names
    /\ OnCycle # report.names
    /\ executed = <<>>

(* ------------------------- The recorder's matcher ----------------------- *)

\* Longest request body, in pieces.
MaxBody == 3

\* Pieces of text a body is made of. No piece is a prefix of another, so two
\* bodies are the same string exactly when they are the same sequence.
Quote == "\""
KeyChar == "A"
RealDate == "2020-01-01T00:00:00Z"
FakeDate == "2001-02-03T04:05:06Z"
FakeDateRest == "-02-03T04:05:06Z"
RealDateRest == "-01-01T00:00:00Z"
SshRsa == "ssh-rsa "
SshRsaRest == "-rsa "
KeyPlaceholder == "{KEY}"

RequestTokens == {Quote, KeyChar, RealDate, SshRsa}
RecordedTokens == {Quote, KeyChar, RealDate, FakeDate, FakeDateRest, SshRsa, SshRsaRest, KeyPlaceholder}

\* The sequences over S of length at most n.
SeqsUpTo(S, n) == UNION {[1..k -> S] : k \in 0..n}

\* An http.Request: Body is nil (hasBody FALSE) or a reader over its bytes.
Requests ==
    [method : {"PUT", "GET"}, url : {"/a", "/b"}, count : {1, 2},
     hasBody : {TRUE}, body : SeqsUpTo(RequestTokens, MaxBody)]
    \cup [method : {"PUT", "GET"}, url : {"/a", "/b"}, count : {1, 2},
          hasBody : {FALSE}, body : {<<>>}]

\* cassette.DefaultMatcher: same method and same URL.
DefaultMatcher(r, i) == r.method = i.method /\ r.url = i.url

\* dateMatcher: the pieces that are ISO8601 datetimes.
dateMatcher == {RealDate, FakeDate}

\* [0-9a-zA-Z+/=]+ : how a piece fares at the start of or inside a key.
\* "all" is swallowed whole, "some" loses its leading characters, "none"
\* ends the key.
InKey(t) ==
    IF t = KeyChar THEN "all"
    ELSE IF t \in {RealDate, FakeDate, SshRsa} THEN "some"
    ELSE "none"

\* What is left of a piece whose leading characters a key swallowed.
RestOf(t) ==
    IF t = FakeDate THEN FakeDateRest
    ELSE IF t = RealDate THEN RealDateRest
    ELSE SshRsaRest

RECURSIVE hideDates(_)
hideDates(s) ==
    IF s = <<>> THEN <<>>
    ELSE <<IF Head(s) \in dateMatcher THEN FakeDate ELSE Head(s)>> \o hideDates(Tail(s))

RECURSIVE hideSSHKeys(_)
RECURSIVE AfterSshRsa(_)
\* sshKeyMatcher.ReplaceAllLiteralString over the pieces of s.
hideSSHKeys(s) ==
    IF s = <<>> THEN <<>>
    ELSE IF Head(s) = SshRsa /\ Len(s) > 1 /\ InKey(s[2]) # "none"
    THEN <<SshRsa, KeyPlaceholder>> \o AfterSshRsa(Tail(s))
    ELSE <<Head(s)>> \o hideSSHKeys(Tail(s))

\* The rest of the replacement once "ssh-rsa " has been seen and s begins
\* inside the key: the key runs as far as its characters do.
AfterSshRsa(s) ==
    IF s = <<>> THEN <<>>
    ELSE IF InKey(Head(s)) = "all" THEN AfterSshRsa(Tail(s))
    ELSE IF InKey(Head(s)) = "some" THEN <<RestOf(Head(s))>> \o hideSSHKeys(Tail(s))
    ELSE hideSSHKeys(s)

hideRecordingData(s) == hideSSHKeys(hideDates(s))

\* A cassette.Request, recorded earlier: its body is what some request body
\* was saved as, or any short text.
Interactions ==
    [method : {"PUT"}, url : {"/a"}, count : {1},
     body : SeqsUpTo(RecordedTokens, MaxBody - 1)
            \cup {hideRecordingData(b) : b \in SeqsUpTo(RequestTokens, MaxBody)}]

\* A matcher that does not look at the request-count header.
MatcherIgnoringCount(r, i, readErr) ==
    IF ~DefaultMatcher(r, i) THEN "false"
    ELSE IF ~r.hasBody THEN (IF i.body = <<>> THEN "true" ELSE "false")
    ELSE IF readErr THEN "panic"
    ELSE IF r.body = <<>> \/ hideRecordingData(r.body) = i.body THEN "true"
    ELSE "false"

\* The function given to r.SetMatcher: "true", "false" or "panic".
Matcher(r, i, readErr) ==
    IF ~DefaultMatcher(r, i) THEN "false"
    ELSE IF r.count # i.count THEN "false"
    ELSE IF ~r.hasBody THEN (IF i.body = <<>> THEN "true" ELSE "false")
    ELSE IF readErr THEN "panic"
    ELSE IF r.body = <<>> \/ hideRecordingData(r.body) = i.body THEN "true"
    ELSE "false"

MatcherInit ==
    /\ request \in Requests
    /\ interaction \in Interactions
    /\ mpc = "called"
    /\ matched = FALSE
    /\ StageIdle
    /\ PipelineIdle
    /\ EnvtestIdle

\* One call of the matcher, with a read of the body that fails or not.
MatchRequest(readErr) ==
    /\ mpc = "called"
    /\ LET m == Matcher(request, interaction, readErr)
       IN  /\ mpc' = (IF m = "panic" THEN "panicked" ELSE "returned")
           /\ matched' = (m = "true")
    /\ UNCHANGED <<request, interaction>>
    /\ UNCHANGED <<stageVars, pipeVars, envVars>>

MatcherNext == \E readErr \in BOOLEAN : MatchRequest(readErr)

MatcherSpec == MatcherInit /\ [][MatcherNext]_vars

(* ---------------------------- Matcher claims ---------------------------- *)

\* Whether a body still holds a date other than the placeholder, or a key.
HoldsSecret(s) ==
    \/ \E k \in DOMAIN s : s[k] = RealDate
    \/ \E k \in DOMAIN s : k < Len(s) /\ s[k] = SshRsa /\ s[k + 1] \in {KeyChar, RealDate, FakeDate, SshRsa}

\* C14 as stated: a request matches only if the default URL/method match
\* holds, the request-count headers are equal and the scrubbed body equals
\* the recorded body; a request with no body or an empty body matches only
\* an interaction whose recorded body is empty.
C14_EmptyBodyMatchesOnlyEmpty ==
    (mpc = "returned" /\ matched) =>
        /\ DefaultMatcher(request, interaction)
        /\ request.count = interaction.count
        /\ hideSSHKeys(hideDates(request.body)) = interaction.body
        /\ (~request.hasBody \/ request.body = <<>>) => interaction.body = <<>>

\* C14: a request matches exactly when the default URL/method match holds,
\* the request-count headers are equal and: with no body (nil), the recorded
\* body is empty; with a body that is empty, whatever the recorded body is;
\* with any other body, that body with its dates and SSH keys replaced by
\* the placeholders equals the recorded body, which then holds no date but
\* the placeholder and no key.
C14_MatcherChecksBody ==
    mpc = "returned" =>
        /\ matched <=>
              /\ request.method = interaction.method
              /\ request.url = interaction.url
              /\ request.count = interaction.count
              /\ IF ~request.hasBody THEN interaction.body = <<>>
                 ELSE IF request.body = <<>> THEN TRUE
                 ELSE hideSSHKeys(hideDates(request.body)) = interaction.body
        /\ (matched /\ request.body # <<>>) => ~HoldsSecret(interaction.body)

\* A request whose body holds a date and a key of two pieces has matched the
\* interaction recorded with the two placeholders.
C14_Witness ==
    /\ mpc = "returned"
    /\ matched
    /\ request.body = <<RealDate, SshRsa, KeyChar>>
    /\ interaction.body = <<FakeDate, SshRsa, KeyPlaceholder>>

(* ------------------------- createEnvtestContext ------------------------- *)

\* The dials of waitForWebhooks are counted up to this number; the loop
\* itself goes on.
MaxDials == 3

\* The functions given to T.Cleanup.
StopEnvtest == "environment.Stop"
CloseStopManager == "close(stopManager)"

EnvtestInit ==
    /\ tpc = "environment.Start"
    /\ cleanups = <<>>
    /\ environment = "down"
    /\ stopManager = "open"
    /\ mgr = "none"
    /\ listening = FALSE
    /\ connected = FALSE
    /\ dials = 0
    /\ requeueDelay = "0"
    /\ StageIdle
    /\ PipelineIdle
    /\ MatcherIdle

\* A step of the setup that failed: createEnvtestContext returns the error.
ReturnError ==
    /\ tpc' = "failed"
    /\ UNCHANGED <<cleanups, stopManager, mgr, listening, connected, dials, requeueDelay>>

\* environment.Start()
EnvironmentStart(ok) ==
    /\ tpc = "environment.Start"
    /\ IF ok
       THEN /\ environment' = "up"
            /\ tpc' = "T.Cleanup(environment.Stop)"
            /\ UNCHANGED <<cleanups, stopManager, mgr, listening, connected, dials, requeueDelay>>
       ELSE /\ ReturnError
            /\ UNCHANGED environment
    /\ UNCHANGED <<stageVars, pipeVars, matchVars>>

\* T.Cleanup(func() { environment.Stop() })
RegisterStopEnvtest ==
    /\ tpc = "T.Cleanup(environment.Stop)"
    /\ cleanups' = Append(cleanups, StopEnvtest)
    /\ tpc' = "ctrl.NewManager"
    /\ UNCHANGED <<environment, stopManager, mgr, listening, connected, dials, requeueDelay>>
    /\ UNCHANGED <<stageVars, pipeVars, matchVars>>

\* ctrl.NewManager(...)
NewManager(ok) ==
    /\ tpc = "ctrl.NewManager"
    /\ IF ok
       THEN /\ mgr' = "created"
            /\ tpc' = "requeueDelay"
            /\ UNCHANGED <<cleanups, stopManager, listening, connected, dials, requeueDelay>>
       ELSE ReturnError
    /\ UNCHANGED environment
    /\ UNCHANGED <<stageVars, pipeVars, matchVars>>

\* var requeueDelay time.Duration, lowered when the recorder is replaying.
SetRequeueDelay(replaying) ==
    /\ tpc = "requeueDelay"
    /\ requeueDelay' = (IF replaying THEN "100ms" ELSE "0")
    /\ tpc' = "controllers.RegisterAll"
    /\ UNCHANGED <<cleanups, environment, stopManager, mgr, listening, connected, dials>>
    /\ UNCHANGED <<stageVars, pipeVars, matchVars>>

\* controllers.RegisterAll(...)
RegisterAll(ok) ==
    /\ tpc = "controllers.RegisterAll"
    /\ IF ok
       THEN /\ tpc' = "controllers.RegisterWebhooks"
            /\ UNCHANGED <<cleanups, stopManager, mgr, listening, connected, dials, requeueDelay>>
       ELSE ReturnError
    /\ UNCHANGED environment
    /\ UNCHANGED <<stageVars, pipeVars, matchVars>>

\* controllers.RegisterWebhooks(...)
RegisterWebhooks(ok) ==
    /\ tpc = "controllers.RegisterWebhooks"
    /\ IF ok
       THEN /\ tpc' = "go mgr.Start"
            /\ UNCHANGED <<cleanups, stopManager, mgr, listening, connected, dials, requeueDelay>>
       ELSE ReturnError
    /\ UNCHANGED environment
    /\ UNCHANGED <<stageVars, pipeVars, matchVars>>

\* stopManager := make(chan struct{}); go func() { ... }()
GoManager ==
    /\ tpc = "go mgr.Start"
    /\ stopManager' = "open"
    /\ mgr' = "spawned"
    /\ tpc' = "T.Cleanup(close)"
    /\ UNCHANGED <<cleanups, environment, listening, connected, dials, requeueDelay>>
    /\ UNCHANGED <<stageVars, pipeVars, matchVars>>

\* T.Cleanup(func() { close(stopManager) })
RegisterCloseStopManager ==
    /\ tpc = "T.Cleanup(close)"
    /\ cleanups' = Append(cleanups, CloseStopManager)
    /\ tpc' = "net.DialTimeout"
    /\ UNCHANGED <<environment, stopManager, mgr, listening, connected, dials, requeueDelay>>
    /\ UNCHANGED <<stageVars, pipeVars, matchVars>>

\* A wait that gives up after a failed dial.
AfterFailedDialGiveUp == "mgr.GetWebhookServer"

\* Where waitForWebhooks goes after a failed dial.
AfterFailedDial == "time.Sleep"

\* One turn of the loop of waitForWebhooks: the dial succeeds exactly when
\* the webhook server accepts connections.
Dial ==
    /\ tpc = "net.DialTimeout"
    /\ dials' = (IF dials < MaxDials THEN dials + 1 ELSE dials)
    /\ IF listening
       THEN /\ connected' = TRUE
            /\ tpc' = "mgr.GetWebhookServer"
       ELSE /\ tpc' = AfterFailedDial
            /\ UNCHANGED connected
    /\ UNCHANGED <<cleanups, environment, stopManager, mgr, listening, requeueDelay>>
    /\ UNCHANGED <<stageVars, pipeVars, matchVars>>

\* time.Sleep(time.Second / 2); continue
Sleep ==
    /\ tpc = "time.Sleep"
    /\ tpc' = "net.DialTimeout"
    /\ UNCHANGED <<cleanups, environment, stopManager, mgr, listening, connected, dials, requeueDelay>>
    /\ UNCHANGED <<stageVars, pipeVars, matchVars>>

\* waitForWebhooks has returned: createEnvtestContext returns the context.
ReturnContext ==
    /\ tpc = "mgr.GetWebhookServer"
    /\ tpc' = "returned"
    /\ UNCHANGED <<cleanups, environment, stopManager, mgr, listening, connected, dials, requeueDelay>>
    /\ UNCHANGED <<stageVars, pipeVars, matchVars>>

\* The test that asked for the context ends, with or without one.
TestEnds ==
    /\ tpc \in {"returned", "failed"}
    /\ tpc' = "cleanup"
    /\ UNCHANGED <<cleanups, environment, stopManager, mgr, listening, connected, dials, requeueDelay>>
    /\ UNCHANGED <<stageVars, pipeVars, matchVars>>

\* The testing package calls the cleanup functions, last added first.
RunCleanup ==
    /\ tpc = "cleanup"
    /\ cleanups # <<>>
    /\ cleanups' = SubSeq(cleanups, 1, Len(cleanups) - 1)
    /\ IF cleanups[Len(cleanups)] = CloseStopManager
       THEN /\ stopManager' = "closed"
            /\ UNCHANGED environment
       ELSE /\ environment' = "stopped"
            /\ UNCHANGED stopManager
    /\ UNCHANGED <<tpc, mgr, listening, connected, dials, requeueDelay>>
    /\ UNCHANGED <<stageVars, pipeVars, matchVars>>

\* Every cleanup function has run.
TestFinished ==
    /\ tpc = "cleanup"
    /\ cleanups = <<>>
    /\ tpc' = "finished"
    /\ UNCHANGED <<cleanups, environment, stopManager, mgr, listening, connected, dials, requeueDelay>>
    /\ UNCHANGED <<stageVars, pipeVars, matchVars>>

\* The goroutine is scheduled and calls mgr.Start(stopManager).
ManagerStart ==
    /\ tpc # "exited"
    /\ mgr = "spawned"
    /\ mgr' = "running"
    /\ UNCHANGED <<tpc, cleanups, environment, stopManager, listening, connected, dials, requeueDelay>>
    /\ UNCHANGED <<stageVars, pipeVars, matchVars>>

\* The manager's webhook server begins to accept connections.
ManagerListens ==
    /\ tpc # "exited"
    /\ mgr = "running"
    /\ stopManager = "open"
    /\ ~listening
    /\ listening' = TRUE
    /\ UNCHANGED <<tpc, cleanups, environment, stopManager, mgr, connected, dials, requeueDelay>>
    /\ UNCHANGED <<stageVars, pipeVars, matchVars>>

\* mgr.Start returns: nil once the channel is closed, an error at any time.
ManagerStartReturns(err) ==
    /\ tpc # "exited"
    /\ mgr = "running"
    /\ err \/ stopManager = "closed"
    /\ mgr' = (IF err THEN "failed" ELSE "stopped")
    /\ listening' = FALSE
    /\ UNCHANGED <<tpc, cleanups, environment, stopManager, connected, dials, requeueDelay>>
    /\ UNCHANGED <<stageVars, pipeVars, matchVars>>

\* T.Errorf(...); os.Exit(1): the process ends, whatever the test was doing.
ManagerExits ==
    /\ tpc # "exited"
    /\ mgr = "failed"
    /\ mgr' = "exited"
    /\ tpc' = "exited"
    /\ UNCHANGED <<cleanups, environment, stopManager, listening, connected, dials, requeueDelay>>
    /\ UNCHANGED <<stageVars, pipeVars, matchVars>>

\* The steps of createEnvtestContext and of waitForWebhooks.
CreateStep ==
    \/ \E ok \in BOOLEAN : EnvironmentStart(ok)
    \/ RegisterStopEnvtest
    \/ \E ok \in BOOLEAN : NewManager(ok)
    \/ \E replaying \in BOOLEAN : SetRequeueDelay(replaying)
    \/ \E ok \in BOOLEAN : RegisterAll(ok)
    \/ \E ok \in BOOLEAN : RegisterWebhooks(ok)
    \/ GoManager
    \/ RegisterCloseStopManager
    \/ Dial
    \/ Sleep
    \/ ReturnContext

\* The steps of the testing package once the test has its answer.
TestStep == TestEnds \/ RunCleanup \/ TestFinished

\* The steps of the goroutine that runs the manager.
ManagerStep ==
    \/ ManagerStart
    \/ ManagerListens
    \/ \E err \in BOOLEAN : ManagerStartReturns(err)
    \/ ManagerExits

EnvtestNext == CreateStep \/ TestStep \/ ManagerStep

EnvtestSpec == EnvtestInit /\ [][EnvtestNext]_vars

\* The test goroutine is scheduled as long as createEnvtestContext has a
\* step to take; nothing is assumed of the manager or of the test's end.
EnvtestFairSpec == EnvtestSpec /\ WF_vars(CreateStep)

(* ---------------------------- Envtest claims ---------------------------- *)

\* C15: whenever the envtest environment has been stopped, the manager has
\* stopped before (mgr.Start has returned nil), or was never started: the
\* goroutine is not still inside mgr.Start and has no error to report.
C15_ManagerStopsBeforeEnvtest ==
    environment = "stopped" => mgr \in {"none", "created", "stopped"}

\* C16: the context is returned only after a dial has succeeded, a failed
\* dial is always followed by the sleep and another dial however many have
\* failed, the wait ends if the webhook server accepts connections from
\* some point on, and it never ends if the server never does.
C16_WaitForWebhooks ==
    /\ [](tpc \in {"mgr.GetWebhookServer", "returned"} => connected)
    /\ [][(tpc = "net.DialTimeout" /\ ~listening /\ tpc' # tpc)
            => tpc' \in {"time.Sleep", "exited"}]_vars
    /\ [][(tpc = "time.Sleep" /\ tpc' # tpc)
            => tpc' \in {"net.DialTimeout", "exited"}]_vars
    /\ (<>[]listening) => <>(tpc = "returned")
    /\ ([]~listening) => [](tpc # "returned" /\ ~connected)

\* The context has been returned after dials that failed and one that
\* succeeded.
C16_Witness ==
    /\ tpc = "returned"
    /\ connected
    /\ listening
    /\ dials = MaxDials

=============================================================================
